---- MODULE Spec2Model ----
(***************************************************************************)
(* A model of bikemonkey2 (src/src/main.rs): the per-record extraction     *)
(* (Rider::from_value with its helpers parse_duration and parse_course),   *)
(* the load of a batch (Bikemonkey::from_json), and the query pipeline     *)
(* (filter_riders, print_all, print_info).                                 *)
(*                                                                         *)
(* Text is modelled as a sequence of atoms.  An atom is a run of           *)
(* characters that holds no separator: a digit, "+", ":" or a junk run in  *)
(* a time text; a word or " " in a route text; a letter in a name.  A      *)
(* token equals a literal of the source exactly when it is the one-atom    *)
(* sequence of that literal.                                               *)
(*                                                                         *)
(* A u64 is a natural number kept as its little-endian sequence of 16-bit  *)
(* limbs without trailing zero limbs; it fits in 64 bits when it has at    *)
(* most U64Limbs limbs.                                                    *)
(***************************************************************************)
EXTENDS Integers, Sequences, FiniteSets, TLC

VARIABLES
    overflow_checks,  \* build profile: TRUE panics on integer overflow, FALSE wraps
    pc,               \* position of main (or of the caller of a helper)
    records,          \* blob.records: the raw batch
    options,          \* FilterOptions
    extracted,        \* the results of Rider::from_value, one per record mapped so far
    riders,           \* Bikemonkey.riders
    ranked,           \* the Vec<&Rider> filter_riders returned, as indices into riders
    out,              \* the lines printed
    arg,              \* the argument of a helper called on its own
    ret               \* what that helper returned

vars == <<overflow_checks, pc, records, options, extracted, riders, ranked, out, arg, ret>>

----------------------------------------------------------------------------
(* Bounds of the model *)

MaxSegs == 4

MaxTokens == 3

MaxBatch == 2

MaxCatalog == 3

----------------------------------------------------------------------------
(* Results and options *)

Nil == <<>>

Ok(v) == [tag |-> "ok", val |-> v, msg |-> ""]

Err(m) == [tag |-> "err", val |-> Nil, msg |-> m]

Panic(m) == [tag |-> "panic", val |-> Nil, msg |-> m]

None == [some |-> FALSE, val |-> Nil]

\* no Gender (the value TLC holds in its place is a string, as a Gender is)
NoGender == [some |-> FALSE, val |-> ""]

Some(v) == [some |-> TRUE, val |-> v]

SeqsUpTo(S, n) == UNION {[1..k -> S] : k \in 0..n}

----------------------------------------------------------------------------
(* Text *)

RECURSIVE Split(_, _)
\* str::split(sep): the pieces between the separators, empty pieces kept
Split(s, sep) ==
    IF \A i \in 1..Len(s) : s[i] # sep
    THEN <<s>>
    ELSE LET i == CHOOSE k \in 1..Len(s) :
                      s[k] = sep /\ \A j \in 1..(k - 1) : s[j] # sep
         IN  <<SubSeq(s, 1, i - 1)>> \o Split(SubSeq(s, i + 1, Len(s)), sep)

RECURSIVE Join(_, _)
\* the text whose pieces are toks
Join(toks, sep) ==
    IF toks = <<>> THEN <<>>
    ELSE IF Len(toks) = 1 THEN toks[1]
    ELSE toks[1] \o <<sep>> \o Join(Tail(toks), sep)

----------------------------------------------------------------------------
(* u64 arithmetic *)

Base == 2^16

U64Limbs == 64 \div 16

RECURSIVE Normalise(_)
Normalise(n) ==
    IF n # <<>> /\ n[Len(n)] = 0 THEN Normalise(SubSeq(n, 1, Len(n) - 1)) ELSE n

RECURSIVE NatMulAdd(_, _, _)
\* n * c + carry, for a small c
NatMulAdd(n, c, carry) ==
    IF n = <<>>
    THEN IF carry = 0 THEN <<>>
         ELSE <<carry % Base>> \o NatMulAdd(<<>>, c, carry \div Base)
    ELSE LET t == Head(n) * c + carry
         IN  <<t % Base>> \o NatMulAdd(Tail(n), c, t \div Base)

RECURSIVE NatAddC(_, _, _)
NatAddC(a, b, carry) ==
    IF a = <<>> /\ b = <<>>
    THEN IF carry = 0 THEN <<>> ELSE <<carry>>
    ELSE LET x == IF a = <<>> THEN 0 ELSE Head(a)
             y == IF b = <<>> THEN 0 ELSE Head(b)
             t == x + y + carry
         IN  <<t % Base>> \o NatAddC(IF a = <<>> THEN a ELSE Tail(a),
                                     IF b = <<>> THEN b ELSE Tail(b), t \div Base)

NatMul(n, c) == Normalise(NatMulAdd(n, c, 0))

NatAdd(a, b) == Normalise(NatAddC(a, b, 0))

RECURSIVE NatLess(_, _)
\* a < b, for a and b of normalised numbers (then of equal-length prefixes)
NatLess(a, b) ==
    IF Len(a) # Len(b) THEN Len(a) < Len(b)
    ELSE IF a = <<>> THEN FALSE
    ELSE IF a[Len(a)] # b[Len(b)] THEN a[Len(a)] < b[Len(b)]
    ELSE NatLess(SubSeq(a, 1, Len(a) - 1), SubSeq(b, 1, Len(b) - 1))

\* the machine's result of an operation whose true value is n: the low 64 bits, and
\* whether an operation so far has overflowed
Machine(n, over) ==
    [val  |-> Normalise(SubSeq(n, 1, IF Len(n) <= U64Limbs THEN Len(n) ELSE U64Limbs)),
     over |-> over \/ Len(n) > U64Limbs]

Word(n) == [val |-> n, over |-> FALSE]

\* u64 * c and u64 + u64
U64Mul(a, c) == Machine(NatMul(a.val, c), a.over)

U64Add(a, b) == Machine(NatAdd(a.val, b.val), a.over \/ b.over)

Digits == <<"0", "1", "2", "3", "4", "5", "6", "7", "8", "9">>

IsDigit(c) == \E d \in 1..Len(Digits) : Digits[d] = c

DigitVal(c) == (CHOOSE d \in 1..Len(Digits) : Digits[d] = c) - 1

RECURSIVE DecimalValue(_)
\* the number a run of digits denotes
DecimalValue(ds) ==
    IF ds = <<>> THEN <<>>
    ELSE Normalise(NatMulAdd(DecimalValue(SubSeq(ds, 1, Len(ds) - 1)), 10,
                             DigitVal(ds[Len(ds)])))

InRange(n) == IF Len(n) > U64Limbs THEN Err("number too large") ELSE Ok(n)

\* str::parse::<u64>: an optional "+", then one or more digits, the value below 2^64
ParseU64(tok) ==
    LET ds == IF tok # <<>> /\ Head(tok) = "+" THEN Tail(tok) ELSE tok
    IN  IF ds = <<>> \/ \E i \in 1..Len(ds) : ~IsDigit(ds[i])
        THEN Err("invalid digit")
        ELSE InRange(DecimalValue(ds))

----------------------------------------------------------------------------
(* Rider::from_value::parse_duration *)

\* a piece that does not parse counts as 0 instead of being dropped
DurationComponentsKeepAll(s) ==
    LET pieces == Split(s, ":")
        parsed == [i \in 1..Len(pieces) |-> ParseU64(pieces[i])]
    IN  [i \in 1..Len(parsed) |-> IF parsed[i].tag = "ok" THEN parsed[i].val ELSE <<>>]

\* s.split(":").map(parse::<u64>).filter_map(ok).collect()
DurationComponents(s) ==
    LET pieces == Split(s, ":")
        parsed == [i \in 1..Len(pieces) |-> ParseU64(pieces[i])]
        kept   == SelectSeq(parsed, LAMBDA r : r.tag = "ok")
    IN  [i \in 1..Len(kept) |-> kept[i].val]

\* line 69: components[0] * 60 * 60 + components[1] * 60 + components[2]
Seconds(components) ==
    U64Add(U64Add(U64Mul(U64Mul(Word(components[1]), 60), 60),
                  U64Mul(Word(components[2]), 60)),
           Word(components[3]))

\* an overflow panics in a build with overflow checks and wraps in one without
Checked(w) ==
    IF overflow_checks /\ w.over THEN Panic("arithmetic overflow") ELSE Ok(w.val)

DurationOf(components) ==
    IF Len(components) # 3 THEN Err("bad duration") ELSE Checked(Seconds(components))

parse_duration(s) == DurationOf(DurationComponents(s))

----------------------------------------------------------------------------
(* parse_duration called on its own *)

U64MaxText == <<"1","8","4","4","6","7","4","4","0","7","3","7","0","9","5","5","1","6","1","5">>

U64OverText == <<"1","8","4","4","6","7","4","4","0","7","3","7","0","9","5","5","1","6","1","6">>

TimeSegments ==
    {<<>>, <<"7">>, <<"6", "0">>, <<"x">>, <<"+", "1">>, U64MaxText, U64OverText}

TimeTexts == {Join(segs, ":") : segs \in SeqsUpTo(TimeSegments, MaxSegs)}

InitDuration ==
    /\ overflow_checks \in BOOLEAN
    /\ pc = "call"
    /\ arg \in TimeTexts
    /\ ret = Nil
    /\ records = <<>>
    /\ options = Nil
    /\ extracted = <<>>
    /\ riders = <<>>
    /\ ranked = <<>>
    /\ out = <<>>

CallParseDuration ==
    /\ pc = "call"
    /\ ret' = parse_duration(arg)
    /\ pc' = "returned"
    /\ UNCHANGED <<overflow_checks, records, options, extracted, riders, ranked, out, arg>>

NextDuration == CallParseDuration

SpecDuration == InitDuration /\ [][NextDuration]_vars

----------------------------------------------------------------------------
(* Rider::from_value::parse_course *)

Lit(w) == <<w>>

Classified(course, wc, fr, gender) ==
    [course |-> course, willow_creek |-> wc, fort_ross |-> fr, gender |-> gender]

\* lines 97-114: s is the token vector, idx0 the value of idx after the course match
\* (0-based, as in the source; s[k + 1] here is s[k] there)
CourseQualifiers(s, idx0, course, fr) ==
    LET idx1 == idx0 + 1
        wc   == idx1 < Len(s) /\ s[idx1 + 1] = Lit("WC")
        idx2 == IF idx1 < Len(s) /\ (s[idx1 + 1] = Lit("WC") \/ s[idx1 + 1] = Lit("TANDEM"))
                THEN idx1 + 1 ELSE idx1
    IN  IF idx2 >= Len(s) \/ s[idx2 + 1] = Lit("Male")
        THEN Ok(Classified(course, wc, fr, "Male"))
        ELSE IF s[idx2 + 1] = Lit("Female")
        THEN Ok(Classified(course, wc, fr, "Female"))
        ELSE Err("bad gender")

\* the FAMILY arm classifies instead of rejecting
parse_course_family(s) ==
    IF s[1] = Lit("IL")
    THEN IF Len(s) < 3 THEN Err("bad route")
         ELSE CourseQualifiers(s, 1, "IlRegno", FALSE)
    ELSE IF s[1] = Lit("PICCOLO") THEN CourseQualifiers(s, 0, "Piccollo", FALSE)
    ELSE IF s[1] = Lit("MEDIO") THEN CourseQualifiers(s, 0, "Medio", FALSE)
    ELSE IF s[1] = Lit("GRAN")
    THEN IF Len(s) < 2 THEN Panic("index out of bounds")
         ELSE IF s[2] = Lit("Fort") THEN CourseQualifiers(s, 2, "Gran", TRUE)
         ELSE CourseQualifiers(s, 0, "Gran", FALSE)
    ELSE IF s[1] = Lit("FAMILY") THEN Ok(Classified("Piccollo", FALSE, FALSE, "Male"))
    ELSE Err("unknown course")

\* lines 73-95: s[0] always exists (split yields at least one piece); s[1] is read
\* unchecked in the GRAN arm, and indexing past the end of a Vec panics
parse_course(s) ==
    IF s[1] = Lit("IL")
    THEN IF Len(s) < 3 THEN Err("bad route")
         ELSE CourseQualifiers(s, 1, "IlRegno", FALSE)
    ELSE IF s[1] = Lit("PICCOLO") THEN CourseQualifiers(s, 0, "Piccollo", FALSE)
    ELSE IF s[1] = Lit("MEDIO") THEN CourseQualifiers(s, 0, "Medio", FALSE)
    ELSE IF s[1] = Lit("GRAN")
    THEN IF Len(s) < 2 THEN Panic("index out of bounds")
         ELSE IF s[2] = Lit("Fort") THEN CourseQualifiers(s, 2, "Gran", TRUE)
         ELSE CourseQualifiers(s, 0, "Gran", FALSE)
    ELSE IF s[1] = Lit("FAMILY") THEN Err("don't deal with families")
    ELSE Err("unknown course")

----------------------------------------------------------------------------
(* parse_course called on its own, on the pieces of a route text *)

RouteWords ==
    {"IL", "REGNO", "PICCOLO", "MEDIO", "GRAN", "FAMILY", "Fort", "Ross", "WC",
     "TANDEM", "Male", "Female", "Fun"}

\* a piece of a route text: a word, or nothing (between two adjacent spaces)
RoutePieces == {Lit(w) : w \in RouteWords} \cup {<<>>}

RouteHeads ==
    {<<Lit("IL"), Lit("REGNO")>>, <<Lit("GRAN"), Lit("Fort"), Lit("Ross")>>,
     <<Lit("GRAN"), Lit("Fort")>>}

RouteTails == SeqsUpTo({Lit(w) : w \in {"WC", "TANDEM", "Male", "Female", "Fun"}}, 2)

RouteTexts ==
    {Join(toks, " ") : toks \in SeqsUpTo(RoutePieces, MaxTokens)}
    \cup {Join(h \o t, " ") : h \in RouteHeads, t \in RouteTails}

InitCourse ==
    /\ overflow_checks \in BOOLEAN
    /\ pc = "call"
    /\ arg \in RouteTexts
    /\ ret = Nil
    /\ records = <<>>
    /\ options = Nil
    /\ extracted = <<>>
    /\ riders = <<>>
    /\ ranked = <<>>
    /\ out = <<>>

CallParseCourse ==
    /\ pc = "call"
    /\ ret' = parse_course(Split(arg, " "))
    /\ pc' = "returned"
    /\ UNCHANGED <<overflow_checks, records, options, extracted, riders, ranked, out, arg>>

NextCourse == CallParseCourse

SpecCourse == InitCourse /\ [][NextCourse]_vars

----------------------------------------------------------------------------
(* Raw records: serde_json Values *)

JNull == [t |-> "null", s |-> <<>>, n |-> 0]

JStr(text) == [t |-> "str", s |-> text, n |-> 0]

JNum(k) == [t |-> "u64", s |-> <<>>, n |-> k]

\* a value that is neither text nor an unsigned integer (a negative number, a bool)
JOther == [t |-> "other", s |-> <<>>, n |-> 0]

RawRecord(fn, ln, et, rt, bib, id) ==
    [firstname |-> fn, lastname |-> ln, elapsedtime |-> et, route |-> rt,
     bib |-> bib, _id |-> id]

----------------------------------------------------------------------------
(* Rider::from_value *)

\* the name checks without the test for two empty names
NameErrorNoEmptyCheck(v) ==
    IF v.firstname.t # "str" THEN Err("bad firstname")
    ELSE IF v.lastname.t # "str" THEN Err("bad lastname")
    ELSE Ok(Nil)

\* lines 117-126: the error of the name checks, or Ok
NameError(v) ==
    IF v.firstname.t # "str" THEN Err("bad firstname")
    ELSE IF v.lastname.t # "str" THEN Err("bad lastname")
    ELSE IF v.firstname.s = <<>> /\ v.lastname.s = <<>> THEN Err("No riders with no name!")
    ELSE Ok(Nil)

\* lines 145-156
NewRider(v, time, course) ==
    [firstname    |-> v.firstname.s,
     lastname     |-> v.lastname.s,
     elapsedtime  |-> time,
     displaytime  |-> v.elapsedtime.s,
     gender       |-> course.gender,
     course       |-> course.course,
     willow_creek |-> course.willow_creek,
     fort_ross    |-> course.fort_ross,
     bib          |-> v.bib.n,
     _id          |-> v._id.s]

\* the checks with bib and _id looked at before the time and the route
FromFieldsBibFirst(v, names, time, course) ==
    IF names.tag # "ok" THEN names
    ELSE IF v.bib.t # "u64" THEN Err("bad bibno")
    ELSE IF v._id.t # "str" THEN Err("bad id")
    ELSE IF v.elapsedtime.t # "str" THEN Err("bad time")
    ELSE IF time.tag # "ok" THEN time
    ELSE IF v.route.t # "str" THEN Err("bad course")
    ELSE IF course.tag # "ok" THEN course
    ELSE Ok(NewRider(v, time.val, course.val))

\* lines 117-156, with names, time and course the results of the name checks and
\* of the two helpers
FromFields(v, names, time, course) ==
    IF names.tag # "ok" THEN names
    ELSE IF v.elapsedtime.t # "str" THEN Err("bad time")
    ELSE IF time.tag # "ok" THEN time
    ELSE IF v.route.t # "str" THEN Err("bad course")
    ELSE IF course.tag # "ok" THEN course
    ELSE IF v.bib.t # "u64" THEN Err("bad bibno")
    ELSE IF v._id.t # "str" THEN Err("bad id")
    ELSE Ok(NewRider(v, time.val, course.val))

\* the helpers are called only once the checks before them have passed; they are
\* pure, so computing them ahead changes nothing
from_value(v) ==
    FromFields(v, NameError(v), parse_duration(v.elapsedtime.s),
               parse_course(Split(v.route.s, " ")))

----------------------------------------------------------------------------
(* Bikemonkey *)

Course == {"IlRegno", "Gran", "Medio", "Piccollo"}

Gender == {"Male", "Female"}

FilterOptions(courses, gender, debug, firstname, lastname) ==
    [courses |-> courses, gender |-> gender, debug |-> debug,
     firstname |-> firstname, lastname |-> lastname]

\* the results up to the first panic, or all of them
UpToPanic(results) ==
    IF \A i \in 1..Len(results) : results[i].tag # "panic" THEN results
    ELSE SubSeq(results, 1, CHOOSE i \in 1..Len(results) :
                                /\ results[i].tag = "panic"
                                /\ \A j \in 1..(i - 1) : results[j].tag # "panic")

\* the items of blob.records.iter().map(Rider::from_value) that are produced: all
\* of them, or those up to the first call that panics
Mapped(recs) == UpToPanic([i \in 1..Len(recs) |-> from_value(recs[i])])

\* filter_map(|r| r.ok()).collect()
Collected(results) ==
    LET oks == SelectSeq(results, LAMBDA r : r.tag = "ok")
    IN  [i \in 1..Len(oks) |-> oks[i].val]

\* the warnings of debug mode
Warnings(results) ==
    LET errs == SelectSeq(results, LAMBDA r : r.tag = "err")
    IN  [i \in 1..Len(errs) |-> [kind |-> "warning", msg |-> errs[i].msg]]

\* lines 203-213, for the results produced
Load(results) ==
    /\ extracted' = results
    /\ out' = IF options.debug THEN Warnings(results) ELSE <<>>
    /\ IF \E i \in 1..Len(results) : results[i].tag = "panic"
       THEN pc' = "panicked" /\ riders' = riders
       ELSE pc' = "loaded" /\ riders' = Collected(results)

from_json ==
    /\ pc = "start"
    /\ Load(Mapped(records))
    /\ UNCHANGED <<overflow_checks, records, options, ranked, arg, ret>>

\* the closure without the gender test
KeepAnyGender(r, opts) ==
    opts.courses.some => \E i \in 1..Len(opts.courses.val) : opts.courses.val[i] = r.course

\* the closure of filter (lines 219-232)
Keep(r, opts) ==
    /\ opts.courses.some => \E i \in 1..Len(opts.courses.val) : opts.courses.val[i] = r.course
    /\ opts.gender.some => r.gender = opts.gender.val

\* the references collected, as indices into rs, in the order of rs
Retained(rs, opts) ==
    SelectSeq([i \in 1..Len(rs) |-> i], LAMBDA i : Keep(rs[i], opts))

\* slice::sort_unstable_by_key(|r| r.elapsedtime): some arrangement of refs in
\* ascending order of the key; the order of equal keys is not specified
sort_unstable_by_key(rs, refs) ==
    {p \in [1..Len(refs) -> {refs[i] : i \in 1..Len(refs)}] :
        /\ \A i, j \in 1..Len(refs) : i # j => p[i] # p[j]
        /\ \A i \in 1..(Len(refs) - 1) :
               ~NatLess(rs[p[i + 1]].elapsedtime, rs[p[i]].elapsedtime)}

\* the results filter_riders may return
filter_riders(rs, opts) == sort_unstable_by_key(rs, Retained(rs, opts))

PrintAllLine(pos, r) ==
    [kind |-> "rider", pos |-> pos, bib |-> r.bib, _id |-> r._id,
     firstname |-> r.firstname, lastname |-> r.lastname, displaytime |-> r.displaytime,
     course |-> r.course, willow_creek |-> r.willow_creek, fort_ross |-> r.fort_ross]

print_all ==
    /\ pc = "loaded"
    /\ ~(options.firstname.some \/ options.lastname.some)
    /\ \E sorted \in filter_riders(riders, options) :
           /\ ranked' = sorted
           /\ out' = out \o [i \in 1..Len(sorted) |-> PrintAllLine(i, riders[sorted[i]])]
    /\ pc' = "done"
    /\ UNCHANGED <<overflow_checks, records, options, extracted, riders, arg, ret>>

\* caseless::canonical_caseless_match_str on the letters of the model: equal after
\* case folding (the letters here have no decomposition)
Upper == <<"A", "B", "L", "O">>

Lower == <<"a", "b", "l", "o">>

Fold(c) ==
    IF \E i \in 1..Len(Upper) : Upper[i] = c
    THEN Lower[CHOOSE i \in 1..Len(Upper) : Upper[i] = c]
    ELSE c

canonical_caseless_match_str(a, b) ==
    [i \in 1..Len(a) |-> Fold(a[i])] = [i \in 1..Len(b) |-> Fold(b[i])]

\* the closure of filter (lines 262-278)
NameMatches(r, opts) ==
    /\ opts.firstname.some => canonical_caseless_match_str(r.firstname, opts.firstname.val)
    /\ opts.lastname.some => canonical_caseless_match_str(r.lastname, opts.lastname.val)

PrintInfoLine(idx, total, r) ==
    [kind |-> "info", firstname |-> r.firstname, lastname |-> r.lastname,
     pos |-> idx + 1, displaytime |-> r.displaytime, total |-> total,
     plural |-> total > 1, course |-> r.course, willow_creek |-> r.willow_creek,
     fort_ross |-> r.fort_ross]

\* the position counted within the name matches
InfoLinesRankInMatches(rs, sorted, opts) ==
    LET matches == SelectSeq([i \in 1..Len(sorted) |-> i - 1],
                             LAMBDA idx : NameMatches(rs[sorted[idx + 1]], opts))
    IN  IF matches = <<>> THEN <<[kind |-> "none"]>>
        ELSE [k \in 1..Len(matches) |->
                 PrintInfoLine(k - 1, Len(sorted), rs[sorted[matches[k] + 1]])]

\* lines 259-300: the lines print_info prints for the ranked references sorted
InfoLines(rs, sorted, opts) ==
    LET matches == SelectSeq([i \in 1..Len(sorted) |-> i - 1],
                             LAMBDA idx : NameMatches(rs[sorted[idx + 1]], opts))
    IN  IF matches = <<>> THEN <<[kind |-> "none"]>>
        ELSE [k \in 1..Len(matches) |->
                 PrintInfoLine(matches[k], Len(sorted), rs[sorted[matches[k] + 1]])]

print_info ==
    /\ pc = "loaded"
    /\ options.firstname.some \/ options.lastname.some
    /\ \E sorted \in filter_riders(riders, options) :
           /\ ranked' = sorted
           /\ out' = out \o InfoLines(riders, sorted, options)
    /\ pc' = "done"
    /\ UNCHANGED <<overflow_checks, records, options, extracted, riders, arg, ret>>

Next == from_json \/ print_all \/ print_info

----------------------------------------------------------------------------
(* Inputs of the pipeline *)

Text(ws) == Join([i \in 1..Len(ws) |-> Lit(ws[i])], " ")

T010203 == <<"0", "1", ":", "0", "2", ":", "0", "3">>

T123 == <<"1", ":", "2", ":", "3">>

T005900 == <<"0", "0", ":", "5", "9", ":", "0", "0">>

TOverflow == U64MaxText \o <<":", "0", ":", "0">>

FirstNames == {JOther, JStr(<<>>), JStr(<<"A", "l">>)}

LastNames == {JNull, JStr(<<>>), JStr(<<"B", "o">>)}

Times == {JNull, JStr(<<"x">>), JStr(T123), JStr(TOverflow)}

Routes ==
    {JNull, JStr(Text(<<"Fun">>)), JStr(Text(<<"FAMILY", "Fun", "Ride">>)),
     JStr(Text(<<"GRAN">>)), JStr(Text(<<"PICCOLO", "Fun">>)),
     JStr(Text(<<"IL", "REGNO">>)), JStr(Text(<<"MEDIO", "Female">>))}

Bibs == {JOther, JNum(7)}

Ids == {JNull, JStr(<<"a">>)}

\* every combination of a valid or an invalid value of each field
AllRecords ==
    {RawRecord(fn, ln, et, rt, bib, id) :
        fn \in FirstNames, ln \in LastNames, et \in Times, rt \in Routes,
        bib \in Bibs, id \in Ids}

Valid(fn, ln, et, rt, bib) ==
    RawRecord(JStr(fn), JStr(ln), JStr(et), JStr(rt), JNum(bib), JStr(<<"a">>))

SampleRecords ==
    {Valid(<<"A", "l">>, <<"B", "o">>, T010203, Text(<<"GRAN", "Fort", "Ross", "WC", "Female">>), 1),
     Valid(<<"a", "l">>, <<>>, T005900, Text(<<"PICCOLO">>), 2),
     Valid(<<>>, <<>>, T123, Text(<<"MEDIO", "Male">>), 3),
     Valid(<<"A", "l">>, <<"B", "o">>, T123, Text(<<"FAMILY", "Fun", "Ride">>), 4),
     Valid(<<"A", "l">>, <<"B", "o">>, T123, Text(<<"GRAN">>), 5),
     Valid(<<"A", "l">>, <<"B", "o">>, TOverflow, Text(<<"IL", "REGNO", "Male">>), 6),
     Valid(<<"A", "l">>, <<"B", "o">>, <<"x">>, Text(<<"MEDIO">>), 7),
     RawRecord(JStr(<<"A", "l">>), JStr(<<"B", "o">>), JStr(T123), JStr(Text(<<"MEDIO">>)),
               JOther, JStr(<<"a">>))}

SampleOptions ==
    {FilterOptions(None, NoGender, FALSE, None, None),
     FilterOptions(None, NoGender, TRUE, None, None),
     FilterOptions(None, NoGender, TRUE, Some(<<"A", "L">>), None)}

\* Init: main has parsed its arguments (line 349) and the document has been opened
\* and deserialized (lines 198-199; a missing or malformed document ends main at
\* line 352 before any record is looked at).  The batch is one record of AllRecords
\* or up to MaxBatch records of SampleRecords
Init ==
    /\ overflow_checks \in BOOLEAN
    /\ pc = "start"
    /\ records \in SeqsUpTo(SampleRecords, MaxBatch) \cup {<<r>> : r \in AllRecords}
    /\ options \in SampleOptions
    /\ extracted = <<>>
    /\ riders = <<>>
    /\ ranked = <<>>
    /\ out = <<>>
    /\ arg = Nil
    /\ ret = Nil

Spec == Init /\ [][Next]_vars

\* the riders of the queries: two ties at 01:02:03 and one more of the same duration
\* written 1:2:3, a faster rider, both genders, three courses, names in both cases
QueryRecords ==
    {Valid(<<"A", "l">>, <<"B", "o">>, T010203, Text(<<"GRAN", "Fort", "Ross", "WC", "Female">>), 1),
     Valid(<<"a", "l">>, <<"L", "o">>, T005900, Text(<<"PICCOLO">>), 2),
     Valid(<<"B", "o">>, <<"B", "o">>, T010203, Text(<<"GRAN", "Male">>), 3),
     Valid(<<"A", "L">>, <<"b", "o">>, T123, Text(<<"IL", "REGNO", "Male">>), 4)}

CourseOptions ==
    {None} \cup {Some(<<c>>) : c \in Course}
    \cup {Some(<<"Gran", "Piccollo">>), Some(<<"IlRegno", "Gran", "Medio", "Piccollo">>)}

QueryOptions ==
    {FilterOptions(cs, g, FALSE, fn, ln) :
        cs \in CourseOptions,
        g \in {NoGender} \cup {Some(x) : x \in Gender},
        fn \in {None, Some(<<"A", "L">>)},
        ln \in {None, Some(<<"B", "O">>)}}

InitQuery ==
    /\ overflow_checks \in BOOLEAN
    /\ pc = "start"
    /\ records \in SeqsUpTo(QueryRecords, MaxCatalog)
    /\ options \in QueryOptions
    /\ extracted = <<>>
    /\ riders = <<>>
    /\ ranked = <<>>
    /\ out = <<>>
    /\ arg = Nil
    /\ ret = Nil

SpecQuery == InitQuery /\ [][Next]_vars

----------------------------------------------------------------------------
(* Claims about parse_duration, checked under SpecDuration *)

TimeSegs == Split(arg, ":")

IsNumeric(tok) == ParseU64(tok).tag = "ok"

NumericCount == Cardinality({i \in 1..Len(TimeSegs) : IsNumeric(TimeSegs[i])})

\* arg is h:m:s with three unsigned-integer components
HmsForm == Len(TimeSegs) = 3 /\ \A i \in 1..3 : IsNumeric(TimeSegs[i])

\* h*3600 + m*60 + s as a natural number
ExactSeconds ==
    NatAdd(NatAdd(NatMul(ParseU64(TimeSegs[1]).val, 3600),
                  NatMul(ParseU64(TimeSegs[2]).val, 60)),
           ParseU64(TimeSegs[3]).val)

\* C5: every text h:m:s of three unsigned-integer components parses to exactly
\* h*3600 + m*60 + s seconds, and every text that does not reduce to exactly three
\* numeric components after the non-numeric ones are dropped fails.
C5_ExactSeconds ==
    pc = "returned" =>
        /\ HmsForm => ret = Ok(ExactSeconds)
        /\ NumericCount # 3 => ret.tag = "err"

\* C6 as stated: every text with an extra non-numeric piece, or with a number of
\* pieces other than three, is rejected.
C6_RejectsExtraPieces ==
    pc = "returned" =>
        ((Len(TimeSegs) # 3 \/ \E i \in 1..Len(TimeSegs) : ~IsNumeric(TimeSegs[i]))
            => ret.tag = "err")

\* C6 as amended: a text is rejected exactly when the number of its pieces that
\* parse as u64 is other than three; the pieces that do not parse are dropped
\* before the count.
C6_RejectsUnlessThreeNumeric ==
    pc = "returned" => (ret.tag = "err" <=> NumericCount # 3)

\* a four-piece text with a non-numeric piece and two numeric ones was rejected
C6_Witness ==
    /\ pc = "returned"
    /\ Len(TimeSegs) = 4
    /\ NumericCount = 2
    /\ ret.tag = "err"

----------------------------------------------------------------------------
(* The claim about parse_course, checked under SpecCourse *)

RouteToks == Split(arg, " ")

TokAt(k) == IF k <= Len(RouteToks) THEN RouteToks[k] ELSE <<"(none)">>

HasCoursePrefix == RouteToks[1] \in {Lit("IL"), Lit("PICCOLO"), Lit("MEDIO"), Lit("GRAN")}

GrammarCourse ==
    IF RouteToks[1] = Lit("IL") THEN "IlRegno"
    ELSE IF RouteToks[1] = Lit("GRAN") THEN "Gran"
    ELSE IF RouteToks[1] = Lit("MEDIO") THEN "Medio"
    ELSE "Piccollo"

GrammarFortRoss == RouteToks[1] = Lit("GRAN") /\ TokAt(2) = Lit("Fort")

\* the place (from 1) of the token after the course: IL skips one more token, GRAN
\* followed by Fort skips two more
AfterCourse ==
    IF RouteToks[1] = Lit("IL") THEN 3 ELSE IF GrammarFortRoss THEN 4 ELSE 2

GrammarWillowCreek == TokAt(AfterCourse) = Lit("WC")

GenderPlace ==
    IF TokAt(AfterCourse) \in {Lit("WC"), Lit("TANDEM")} THEN AfterCourse + 1 ELSE AfterCourse

GrammarFails ==
    \/ RouteToks[1] = Lit("IL") /\ Len(RouteToks) < 3
    \/ GenderPlace <= Len(RouteToks) /\ TokAt(GenderPlace) \notin {Lit("Male"), Lit("Female")}

GrammarGender == IF TokAt(GenderPlace) = Lit("Female") THEN "Female" ELSE "Male"

\* C10: on every token sequence with a valid course prefix parse_course follows the
\* positional grammar: it fails where the grammar fails and returns the grammar's
\* course, flags and gender elsewhere.
C10_PositionalGrammar ==
    (pc = "returned" /\ HasCoursePrefix) =>
        IF GrammarFails THEN ret.tag = "err"
        ELSE ret = Ok(Classified(GrammarCourse, GrammarWillowCreek, GrammarFortRoss,
                                 GrammarGender))

----------------------------------------------------------------------------
(* Claims about the load, checked under Spec *)

\* the places of the records whose extraction succeeded
OkPlaces == SelectSeq([i \in 1..Len(extracted) |-> i], LAMBDA i : extracted[i].tag = "ok")

\* C2: loading always completes; a record whose extraction fails is dropped and
\* never aborts the process, and the Catalog is the successfully extracted records
\* in arrival order.
C2_LoadCompletes ==
    pc # "start" =>
        /\ pc # "panicked"
        /\ Len(extracted) = Len(records)
        /\ \A j \in 1..Len(extracted) : extracted[j].tag \in {"ok", "err"}
        /\ Len(riders) = Len(OkPlaces)
        /\ \A k \in 1..Len(riders) : riders[k] = extracted[OkPlaces[k]].val

FamilyRoute(v) == v.route.t = "str" /\ Split(v.route.s, " ")[1] = Lit("FAMILY")

\* C3: a record whose route text starts with the token FAMILY yields no Rider; every
\* Rider of the Catalog has one of the four courses and comes from a record whose
\* route is not a FAMILY route.
C3_NoFamilyRider ==
    /\ \A j \in 1..Len(extracted) : FamilyRoute(records[j]) => extracted[j].tag # "ok"
    /\ pc \in {"loaded", "done"} => Len(riders) = Len(OkPlaces)
    /\ \A k \in 1..Len(riders) :
           /\ riders[k].course \in {"IlRegno", "Gran", "Medio", "Piccollo"}
           /\ riders[k] = extracted[OkPlaces[k]].val
           /\ ~FamilyRoute(records[OkPlaces[k]])

\* a batch with a FAMILY record, otherwise valid, and a valid record was loaded
C3_Witness ==
    /\ pc = "loaded"
    /\ Len(riders) >= 1
    /\ \E j \in 1..Len(records) :
           FamilyRoute(records[j]) /\ extracted[j] = Err("don't deal with families")

BothNamesEmpty(v) ==
    /\ v.firstname.t = "str" /\ v.firstname.s = <<>>
    /\ v.lastname.t = "str" /\ v.lastname.s = <<>>

\* C4: a record whose firstname and lastname are both the empty string is rejected,
\* whatever its other fields, and no Rider of the Catalog has both names empty.
C4_NoNamelessRider ==
    /\ \A j \in 1..Len(extracted) :
           BothNamesEmpty(records[j]) => extracted[j] = Err("No riders with no name!")
    /\ pc \in {"loaded", "done"} => Len(riders) = Len(OkPlaces)
    /\ \A k \in 1..Len(riders) :
           /\ riders[k] = extracted[OkPlaces[k]].val
           /\ ~(riders[k].firstname = <<>> /\ riders[k].lastname = <<>>)

\* a record with two empty names and every other field valid was rejected, next to
\* an admitted record with one empty name
C4_Witness ==
    /\ pc = "loaded"
    /\ \E j \in 1..Len(records) :
           /\ BothNamesEmpty(records[j])
           /\ from_value([records[j] EXCEPT !.firstname = JStr(<<"A">>)]).tag = "ok"
           /\ extracted[j].tag = "err"
    /\ \E k \in 1..Len(riders) : riders[k].lastname = <<>>

\* whether step k of the extraction of v fails, each step looked at on its own
StepFails(v, k) ==
    CASE k = 1 -> v.firstname.t # "str"
      [] k = 2 -> v.lastname.t # "str"
      [] k = 3 -> BothNamesEmpty(v)
      [] k = 4 -> v.elapsedtime.t # "str"
      [] k = 5 -> v.elapsedtime.t = "str" /\ parse_duration(v.elapsedtime.s).tag # "ok"
      [] k = 6 -> v.route.t # "str"
      [] k = 7 -> v.route.t = "str" /\ parse_course(Split(v.route.s, " ")).tag # "ok"
      [] k = 8 -> v.bib.t # "u64"
      [] k = 9 -> v._id.t # "str"

\* what step k yields when it fails
StepOutcome(v, k) ==
    CASE k = 1 -> Err("bad firstname")
      [] k = 2 -> Err("bad lastname")
      [] k = 3 -> Err("No riders with no name!")
      [] k = 4 -> Err("bad time")
      [] k = 5 -> parse_duration(v.elapsedtime.s)
      [] k = 6 -> Err("bad course")
      [] k = 7 -> parse_course(Split(v.route.s, " "))
      [] k = 8 -> Err("bad bibno")
      [] k = 9 -> Err("bad id")

FailingSteps(v) == {k \in 1..9 : StepFails(v, k)}

FirstOf(S) == CHOOSE k \in S : \A m \in S : k <= m

\* C9: the fields are validated in the order firstname, lastname, both names empty,
\* elapsedtime (presence, then parse), route (presence, then classification), bib,
\* _id; the result is that of the earliest failing step, whatever the later fields.
C9_EarliestFailure ==
    \A j \in 1..Len(extracted) :
        IF FailingSteps(records[j]) = {} THEN extracted[j].tag = "ok"
        ELSE extracted[j] = StepOutcome(records[j], FirstOf(FailingSteps(records[j])))

\* a record with a bad time, a bad route and a bad bib was reported for its time
C9_Witness ==
    /\ pc # "start"
    /\ \E j \in 1..Len(extracted) :
           /\ {5, 7, 8} \subseteq FailingSteps(records[j])
           /\ extracted[j] = Err("bad duration")

----------------------------------------------------------------------------
(* Claims about the queries, checked under SpecQuery *)

\* C1: the retained records are ranked by elapsed duration ascending, and records
\* of equal duration keep their arrival order.
C1_StableRanking ==
    pc = "done" =>
        /\ \A i \in 1..(Len(ranked) - 1) :
               ~NatLess(riders[ranked[i + 1]].elapsedtime, riders[ranked[i]].elapsedtime)
        /\ \A i, j \in 1..Len(ranked) :
               (i < j /\ riders[ranked[i]].elapsedtime = riders[ranked[j]].elapsedtime)
                   => ranked[i] < ranked[j]

\* r satisfies the criteria: its course is in the course set when one is given, and
\* its gender is the criteria's when one is given
Satisfies(r) ==
    /\ options.courses.some =>
           r.course \in {options.courses.val[i] : i \in 1..Len(options.courses.val)}
    /\ options.gender.some => r.gender = options.gender.val

Occurrences(i) == Cardinality({k \in 1..Len(ranked) : ranked[k] = i})

FilterExact ==
    pc = "done" =>
        /\ \A k \in 1..Len(ranked) : ranked[k] \in 1..Len(riders)
        /\ \A i \in 1..Len(riders) :
               Occurrences(i) = IF Satisfies(riders[i]) THEN 1 ELSE 0
        /\ Len(ranked) <= Len(riders)

\* C7: filter_riders returns exactly the records of the Catalog that satisfy the
\* criteria, each once and no other, so at most as many as the Catalog holds, and
\* it leaves the Catalog as it was.
C7_FilterExact ==
    [](FilterExact) /\ [][pc = "loaded" => riders' = riders]_vars

\* a query by course and gender kept some records of the Catalog and dropped others
C7_Witness ==
    /\ pc = "done"
    /\ options.courses.some /\ options.gender.some
    /\ Len(ranked) >= 1
    /\ Len(ranked) < Len(riders)
    /\ \E i \in 1..Len(riders) :
           riders[i].course = options.courses.val[1] /\ riders[i].gender # options.gender.val

Lookup == options.firstname.some \/ options.lastname.some

TermsMatch(r) ==
    /\ options.firstname.some =>
           canonical_caseless_match_str(r.firstname, options.firstname.val)
    /\ options.lastname.some =>
           canonical_caseless_match_str(r.lastname, options.lastname.val)

\* the places in the ranked sequence of the records that match the name terms
MatchPlaces == {p \in 1..Len(ranked) : TermsMatch(riders[ranked[p]])}

Printed == SelectSeq(out, LAMBDA l : l.kind # "warning")

\* C8: in lookup mode every line is a record that matches all name terms, with its
\* place (from 1) in the filtered and ranked sequence and the size of that sequence;
\* every matching record has its line; with no match the one line is "no riders".
C8_LookupRanks ==
    (pc = "done" /\ Lookup) =>
        IF MatchPlaces = {} THEN Printed = <<[kind |-> "none"]>>
        ELSE /\ Len(Printed) = Cardinality(MatchPlaces)
             /\ \A k \in 1..Len(Printed) :
                    /\ Printed[k].kind = "info"
                    /\ Printed[k].pos \in MatchPlaces
                    /\ Printed[k].total = Len(ranked)
                    /\ Printed[k].firstname = riders[ranked[Printed[k].pos]].firstname
                    /\ Printed[k].lastname = riders[ranked[Printed[k].pos]].lastname
                    /\ Printed[k].displaytime = riders[ranked[Printed[k].pos]].displaytime
                    /\ Printed[k].course = riders[ranked[Printed[k].pos]].course
                    /\ k > 1 => Printed[k - 1].pos < Printed[k].pos

\* a lookup printed a record whose place in the ranked sequence is not its place
\* among the matches
C8_Witness ==
    /\ pc = "done" /\ Lookup
    /\ Len(Printed) >= 1
    /\ Printed[1].kind = "info"
    /\ Printed[1].pos > 1
    /\ Printed[1].total > Len(Printed)

====
